---- MODULE Spec2Model ----
(***************************************************************************)
(* Bounded forensic ring-buffer logger (src/src/ring_buffer.rs).           *)
(*                                                                         *)
(* Text is modelled as its UTF-8 encoding: a sequence of byte values.      *)
(* The circular storage, the entry construction with its byte budget and   *)
(* the truncation function are translated from the source.                 *)
(***************************************************************************)
EXTENDS Integers, Sequences, FiniteSets, TLC

VARIABLES
    entries,          \* RingBuffer.entries: slot index -> entry or None
    tail,             \* RingBuffer.tail
    head,             \* RingBuffer.head
    len,              \* RingBuffer.len
    max_entries,      \* RingBufferLogger.max_entries (after coercion)
    max_entry_bytes,  \* RingBufferLogger.max_entry_bytes
    eviction_count,   \* RingBufferLogger.eviction_count
    clock,            \* SystemTime::now() in seconds since the epoch
    ret,              \* value returned by the last query call
    logged,           \* history: log calls (input, entry built) since construction or the last clear
    log_calls,        \* history: number of log calls since construction
    cleared,          \* history: whether clear was called since construction
    t_s,              \* truncation harness: the input string
    t_max,            \* truncation harness: the byte budget
    t_out,            \* truncation harness: the result
    pc,               \* threads: where each thread is in its current call
    th,               \* threads: the locals of each thread's current call
    calls,            \* threads: number of calls each thread has started
    rw_writer,        \* RwLock: the thread holding the write guard, or 0
    rw_readers,       \* RwLock: the threads holding a read guard
    poisoned,         \* RwLock: a holder of the write guard panicked
    handles,          \* the RingBufferLogger values: the original and its clones
    built,            \* history: the entries built by create_entry
    returned,         \* history: the entries whose log call has returned
    preceded,         \* history: <<a, b>>, log of a returned before log of b started
    commits,          \* history: the storage contents (oldest first) at construction
                      \*          and at every release of the write guard
    given,            \* history: the max_entries argument that new was called with
    discarded         \* history: number of entries that clear calls removed

\* what the threads, the lock and the handles add to the sequential logger
tvars == <<pc, th, calls, rw_writer, rw_readers, poisoned, handles,
           built, returned, preceded, commits, given, discarded>>

vars == <<entries, tail, head, len, max_entries, max_entry_bytes, eviction_count,
          clock, ret, logged, log_calls, cleared, t_s, t_max, t_out, tvars>>

\* Option<T>: None, Some(x)
None == <<>>

Some(x) == <<x>>

Min(a, b) == IF a <= b THEN a ELSE b

Max(a, b) == IF a >= b THEN a ELSE b

\* usize::saturating_sub
saturating_sub(a, b) == IF a >= b THEN a - b ELSE 0

(***************************************************************************)
(* Text as UTF-8 bytes                                                     *)
(***************************************************************************)

\* str::repeat: n copies of the encoded character(s) c
Rep(c, n) == [i \in 1..(n * Len(c)) |-> c[((i - 1) % Len(c)) + 1]]

\* "...[TRUNC]"
indicator == <<46, 46, 46, 91, 84, 82, 85, 78, 67, 93>>

\* no marker: a source identifier without budget is stored empty
omitted_empty == <<>>

\* "[TRUNCATED]"
omitted == <<91, 84, 82, 85, 78, 67, 65, 84, 69, 68, 93>>

\* "10.0.0.1"
ip1 == <<49, 48, 46, 48, 46, 48, 46, 49>>

\* a slice that is not on a character boundary panics
Panic == <<0 - 1>>

\* str::is_char_boundary: offset 0 and the end are boundaries; inside the
\* string a boundary is a byte that is not a continuation byte (0x80..0xBF)
is_char_boundary(s, idx) ==
    IF idx = 0 \/ idx = Len(s) THEN TRUE
    ELSE IF idx > Len(s) THEN FALSE
    ELSE s[idx + 1] < 128 \/ s[idx + 1] >= 192

\* &s[..n]
SliceTo(s, n) == IF is_char_boundary(s, n) THEN SubSeq(s, 1, n) ELSE Panic

\* no walk back to a boundary
LastBoundary_no_walk(s, idx) == idx

\* the nearest boundary strictly before idx, also when idx is a boundary
RECURSIVE LastBoundary_before(_, _)
LastBoundary_before(s, idx) ==
    IF idx = 0 THEN 0
    ELSE IF is_char_boundary(s, idx - 1) THEN idx - 1
    ELSE LastBoundary_before(s, idx - 1)

\* while idx > 0 && !s.is_char_boundary(idx) { idx -= 1 }
RECURSIVE LastBoundary(_, _)
LastBoundary(s, idx) ==
    IF idx > 0 /\ ~is_char_boundary(s, idx) THEN LastBoundary(s, idx - 1) ELSE idx

\* no truncation at all
truncate_none(s, max_bytes) == s

\* truncation that cuts at the budget and appends no indicator
truncate_hard_cut(s, max_bytes) ==
    IF max_bytes = 0 THEN <<>>
    ELSE IF Len(s) <= max_bytes THEN s
    ELSE SliceTo(s, LastBoundary(s, max_bytes))

\* truncation that returns the whole indicator under a budget too small for it
truncate_indicator_unsliced(s, max_bytes) ==
    IF max_bytes = 0 THEN <<>>
    ELSE IF Len(s) <= max_bytes THEN s
    ELSE IF max_bytes <= Len(indicator) THEN indicator
    ELSE LET max_content == max_bytes - Len(indicator)
             idx == LastBoundary(s, max_content)
         IN  IF idx = 0 THEN indicator
             ELSE SliceTo(s, idx) \o indicator

truncate_to_bytes(s, max_bytes) ==
    IF max_bytes = 0 THEN <<>>
    ELSE IF Len(s) <= max_bytes THEN s
    ELSE IF max_bytes <= Len(indicator) THEN SliceTo(indicator, max_bytes)
    ELSE LET max_content == max_bytes - Len(indicator)
             idx == LastBoundary(s, max_content)
         IN  IF idx = 0 THEN indicator
             ELSE SliceTo(s, idx) \o indicator

(***************************************************************************)
(* Entry construction: RingBufferLogger::create_entry                      *)
(***************************************************************************)

\* the body of `for (k, v) in log.metadata()`, from pair i on; acc carries
\* the running size, remaining and metadata_vec, and every `break` returns it
\* the loop with continue in the place of break: a pair that does not fit is
\* passed over and the later pairs are still tried
RECURSIVE metadata_loop_skip(_, _, _)
metadata_loop_skip(md, i, acc) ==
    IF i > Len(md) THEN acc
    ELSE IF acc.remaining = 0 THEN acc
    ELSE LET k == md[i][1]
             v == md[i][2]
             key_len == Len(k)
         IN  IF key_len >= acc.remaining THEN metadata_loop_skip(md, i + 1, acc)
             ELSE LET value_cap == Min(acc.remaining - key_len, 128)
                      value == truncate_to_bytes(v, value_cap)
                      used == key_len + Len(value)
                  IN  IF used > acc.remaining THEN metadata_loop_skip(md, i + 1, acc)
                      ELSE metadata_loop_skip(md, i + 1,
                             [size |-> acc.size + used,
                              remaining |-> saturating_sub(acc.remaining, used),
                              vec |-> Append(acc.vec, <<k, value>>)])

RECURSIVE metadata_loop(_, _, _)
metadata_loop(md, i, acc) ==
    IF i > Len(md) THEN acc
    ELSE IF acc.remaining = 0 THEN acc
    ELSE LET k == md[i][1]
             v == md[i][2]
             key_len == Len(k)
         IN  IF key_len >= acc.remaining THEN acc
             ELSE LET value_cap == Min(acc.remaining - key_len, 128)
                  IN  IF value_cap = 0 THEN acc
                      ELSE LET value == truncate_to_bytes(v, value_cap)
                               used == key_len + Len(value)
                           IN  IF used > acc.remaining THEN acc
                               ELSE metadata_loop(md, i + 1,
                                      [size |-> acc.size + used,
                                       remaining |-> saturating_sub(acc.remaining, used),
                                       vec |-> Append(acc.vec, <<k, value>>)])

create_entry(err, source_ip) ==
    LET op_cap == Min(max_entry_bytes, 256)
        operation == truncate_to_bytes(err.operation, op_cap)
        op_len == Len(operation)
        size1 == 0 + op_len
        remaining1 == saturating_sub(max_entry_bytes, op_len)
        details_cap == Min(remaining1, 512)
        details == truncate_to_bytes(err.details, details_cap)
        details_len == Len(details)
        size2 == size1 + details_len
        remaining2 == saturating_sub(remaining1, details_len)
        m == metadata_loop(err.metadata, 1,
                 [size |-> size2, remaining |-> remaining2, vec |-> <<>>])
        source_ip_str == IF m.remaining = 0 THEN omitted
                         ELSE truncate_to_bytes(source_ip, Min(m.remaining, 128))
        size == IF m.remaining = 0 THEN m.size ELSE m.size + Len(source_ip_str)
    IN  [timestamp |-> clock,
         code |-> err.code,
         operation |-> operation,
         details |-> details,
         source_ip |-> source_ip_str,
         metadata |-> m.vec,
         size_bytes |-> size,
         retryable |-> err.retryable]

(***************************************************************************)
(* Circular storage: struct RingBuffer                                     *)
(***************************************************************************)

\* RingBuffer::new
RingBuffer_new(cap) == [i \in 0..(cap - 1) |-> None]

\* self.entries.len()
RingBuffer_capacity == Cardinality(DOMAIN entries)

\* the occupant of the head slot taken for the evicted entry
evicted_at_head == entries[head]

\* the previous occupant of the tail slot, returned by Option::replace
evicted == entries[tail]

\* push that counts a stored entry even when the storage is full
push_len_unbounded(entry) ==
    /\ entries' = [entries EXCEPT ![tail] = Some(entry)]
    /\ tail' = (tail + 1) % RingBuffer_capacity
    /\ len' = len + 1
    /\ head' = IF len < RingBuffer_capacity THEN head
               ELSE (head + 1) % RingBuffer_capacity

\* push that leaves head where it is when the storage is full
push_head_stuck(entry) ==
    /\ entries' = [entries EXCEPT ![tail] = Some(entry)]
    /\ tail' = (tail + 1) % RingBuffer_capacity
    /\ head' = head
    /\ len' = IF len < RingBuffer_capacity THEN len + 1 ELSE len

\* RingBuffer::push
push(entry) ==
    /\ entries' = [entries EXCEPT ![tail] = Some(entry)]
    /\ tail' = (tail + 1) % RingBuffer_capacity
    /\ IF len < RingBuffer_capacity
       THEN len' = len + 1 /\ head' = head
       ELSE head' = (head + 1) % RingBuffer_capacity /\ len' = len

\* RingBuffer::iter: slots head, head+1, ... (mod capacity), empty ones skipped
iter ==
    LET slots == [i \in 1..len |-> entries[(head + (i - 1)) % RingBuffer_capacity]]
        found == SelectSeq(slots, LAMBDA e : e # None)
    IN  [i \in 1..Len(found) |-> found[i][1]]

\* clear that resets the indices and leaves the slots occupied
RingBuffer_clear_indices_only ==
    /\ entries' = entries
    /\ head' = 0
    /\ tail' = 0
    /\ len' = 0

\* clear that empties the slots and leaves the write index where it was
RingBuffer_clear_keeps_tail ==
    /\ entries' = [i \in DOMAIN entries |-> None]
    /\ head' = 0
    /\ tail' = tail
    /\ len' = 0

\* RingBuffer::clear
RingBuffer_clear ==
    /\ entries' = [i \in DOMAIN entries |-> None]
    /\ head' = 0
    /\ tail' = 0
    /\ len' = 0

(***************************************************************************)
(* Queries of RingBufferLogger, evaluated on the current storage           *)
(***************************************************************************)

\* Iterator::rev
Rev(s) == [i \in 1..Len(s) |-> s[Len(s) + 1 - i]]

\* Iterator::take
Take(s, n) == SubSeq(s, 1, Min(n, Len(s)))

RECURSIVE Sum(_)
Sum(s) == IF s = <<>> THEN 0 ELSE Head(s) + Sum(Tail(s))

\* get_recent without .rev()
get_recent_oldest_first(count) == Take(iter, count)

get_recent(count) == Take(Rev(iter), count)

\* get_all without .rev()
get_all_oldest_first == iter

get_all == Rev(iter)

\* the caller's closure F: Fn(&ForensicEntry) -> bool, one of the named Predicates
predicate(p, e) ==
    CASE p = "from_ip1" -> e.source_ip = ip1
      [] p = "not_retryable" -> ~e.retryable

\* get_filtered that stops at the first match
get_filtered_first_match(p) == Take(SelectSeq(iter, LAMBDA e : predicate(p, e)), 1)

get_filtered(p) == SelectSeq(iter, LAMBDA e : predicate(p, e))

payload_bytes == Sum([i \in 1..Len(iter) |-> iter[i].size_bytes])

capacity == max_entries

is_empty == len = 0

is_full == len >= max_entries

(***************************************************************************)
(* Bounds and inputs                                                       *)
(***************************************************************************)

\* largest max_entries handed to RingBufferLogger::new
MaxEntries == 3

\* log calls per run
MaxLogs == 4

\* largest count handed to get_recent
MaxCount == 2

\* values of max_entry_bytes handed to RingBufferLogger::new
Budgets == {0, 5, 45, 60, 1024}

Predicates == {"from_ip1", "not_retryable"}

\* "error <i>"
error_n(i) == <<101, 114, 114, 111, 114, 32, 48 + i>>

\* AgentError::config(CFG_PARSE_FAILED, "op", "error 0")
ErrPlain ==
    [code |-> "E-CFG-100", operation |-> <<111, 112>>, details |-> error_n(0),
     metadata |-> <<>>, retryable |-> FALSE]

\* the same with details "error 1", .with_retry()
ErrRetry ==
    [code |-> "E-CFG-100", operation |-> <<111, 112>>, details |-> error_n(1),
     metadata |-> <<>>, retryable |-> TRUE]

\* operation of four 3-byte characters, details of twenty 2-byte characters, three
\* metadata pairs ("k1","v1"), ("key2", seventy 2-byte characters), ("k3","v")
ErrWide ==
    [code |-> "E-IO-200", operation |-> Rep(<<226, 130, 172>>, 4),
     details |-> Rep(<<195, 169>>, 20),
     metadata |-> << <<(<<107, 49>>), (<<118, 49>>)>>,
                     <<(<<107, 101, 121, 50>>), Rep(<<195, 169>>, 70)>>,
                     <<(<<107, 51>>), (<<118>>)>> >>,
     retryable |-> FALSE]

\* the (err, source_ip) arguments of log, by name
InputNames == {"plain", "retry", "wide"}

Input(n) ==
    CASE n = "plain" -> [err |-> ErrPlain, source_ip |-> ip1]
      [] n = "retry" -> [err |-> ErrRetry, source_ip |-> ip1]
      [] n = "wide"  -> [err |-> ErrWide, source_ip |-> Rep(<<88>>, 130)]

\* the name of a pair of arguments, as the history records it
InputName(err, source_ip) ==
    CHOOSE n \in InputNames : Input(n) = [err |-> err, source_ip |-> source_ip]

(***************************************************************************)
(* The logger as a state machine                                           *)
(***************************************************************************)

NoRet == [op |-> "none"]

\* the truncation harness is idle in the logger's specification
HarnessIdle == t_s = <<>> /\ t_max = 0 /\ t_out = None

\* no thread runs and the lock is free: the logger is used by one caller
\* through the handle that new returned
SingleCaller ==
    /\ pc = <<>>
    /\ th = <<>>
    /\ calls = <<>>
    /\ rw_writer = 0
    /\ rw_readers = {}
    /\ poisoned = FALSE
    /\ built = {}
    /\ returned = {}
    /\ preceded = {}
    /\ commits = {}

\* the RingBufferLogger value that new returns: the Arc pointers to the
\* storage and to the counter (allocation 0: the one this model holds in
\* entries, tail, head, len and eviction_count) and the two configuration values
Self ==
    [buffer |-> 0, max_entries |-> max_entries,
     max_entry_bytes |-> max_entry_bytes, eviction_count |-> 0]

\* new without max_entries.max(1)
new_uncoerced(n, b) ==
    /\ entries = RingBuffer_new(n)
    /\ tail = 0
    /\ head = 0
    /\ len = 0
    /\ max_entries = n
    /\ max_entry_bytes = b
    /\ eviction_count = 0
    /\ given = n
    /\ discarded = 0

\* RingBufferLogger::new(n, b)
new(n, b) ==
    LET bounded_entries == Max(n, 1)
    IN  /\ entries = RingBuffer_new(bounded_entries)
        /\ tail = 0
        /\ head = 0
        /\ len = 0
        /\ max_entries = bounded_entries
        /\ max_entry_bytes = b
        /\ eviction_count = 0
        /\ given = n
        /\ discarded = 0

Init ==
    /\ \E n \in 0..MaxEntries, b \in Budgets : new(n, b)
    /\ clock = 0
    /\ ret = NoRet
    /\ logged = <<>>
    /\ log_calls = 0
    /\ cleared = FALSE
    /\ HarnessIdle
    /\ SingleCaller
    /\ handles = <<Self>>

\* RingBufferLogger::log
Log(err, source_ip) ==
    /\ log_calls < MaxLogs
    /\ LET entry == create_entry(err, source_ip)
       IN  /\ push(entry)
           /\ eviction_count' = IF evicted # None THEN eviction_count + 1
                                ELSE eviction_count
           /\ logged' = Append(logged, [input |-> InputName(err, source_ip),
                                        entry |-> entry])
    /\ log_calls' = log_calls + 1
    /\ ret' = NoRet
    /\ UNCHANGED <<max_entries, max_entry_bytes, clock, cleared, t_s, t_max, t_out>>
    /\ UNCHANGED tvars

\* clear that also resets the eviction counter
Clear_resets_counter ==
    /\ RingBuffer_clear
    /\ eviction_count' = 0
    /\ logged' = <<>>
    /\ cleared' = TRUE
    /\ discarded' = discarded + len
    /\ ret' = NoRet
    /\ UNCHANGED <<max_entries, max_entry_bytes, clock, log_calls, t_s, t_max, t_out>>
    /\ UNCHANGED <<pc, th, calls, rw_writer, rw_readers, poisoned, handles,
                   built, returned, preceded, commits, given>>

\* RingBufferLogger::clear
Clear ==
    /\ RingBuffer_clear
    /\ logged' = <<>>
    /\ cleared' = TRUE
    /\ discarded' = discarded + len
    /\ ret' = NoRet
    /\ UNCHANGED <<max_entries, max_entry_bytes, eviction_count, clock, log_calls,
                   t_s, t_max, t_out>>
    /\ UNCHANGED <<pc, th, calls, rw_writer, rw_readers, poisoned, handles,
                   built, returned, preceded, commits, given>>

\* a query returns r and leaves the logger as it is
Return(r) ==
    /\ ret' = r
    /\ UNCHANGED <<entries, tail, head, len, max_entries, max_entry_bytes,
                   eviction_count, clock, logged, log_calls, cleared,
                   t_s, t_max, t_out>>
    /\ UNCHANGED tvars

CallGetRecent(count) == Return([op |-> "get_recent", arg |-> count, val |-> get_recent(count)])

CallGetAll == Return([op |-> "get_all", val |-> get_all])

CallGetFiltered(p) == Return([op |-> "get_filtered", arg |-> p, val |-> get_filtered(p)])

CallLen == Return([op |-> "len", val |-> len])

CallPayloadBytes == Return([op |-> "payload_bytes", val |-> payload_bytes])

CallEvictionCount == Return([op |-> "eviction_count", val |-> eviction_count])

Next ==
    \/ \E n \in InputNames : Log(Input(n).err, Input(n).source_ip)
    \/ Clear
    \/ \E count \in 0..MaxCount : CallGetRecent(count)
    \/ CallGetAll
    \/ \E p \in Predicates : CallGetFiltered(p)
    \/ CallLen
    \/ CallPayloadBytes
    \/ CallEvictionCount

Spec == Init /\ [][Next]_vars

(***************************************************************************)
(* truncate_to_bytes on its own: the inputs are drawn in the initial       *)
(* state and one step applies the function                                 *)
(***************************************************************************)

\* characters per generated string
MaxChars == 12

\* largest byte budget handed to truncate_to_bytes
MaxBudget == 24

\* one character each of 1, 2, 3 and 4 bytes: "X", U+00E9, U+20AC, U+1F525
Chars == { <<88>>, <<195, 169>>, <<226, 130, 172>>, <<240, 159, 148, 165>> }

\* runs of one character, and runs of a two-character pattern
Strings ==
    { Rep(c, n) : c \in Chars, n \in 0..MaxChars }
      \cup { Rep(c \o d, n) : c \in Chars, d \in Chars, n \in 1..(MaxChars \div 2) }

InitTruncate ==
    /\ new(1, 0)
    /\ clock = 0
    /\ ret = NoRet
    /\ logged = <<>>
    /\ log_calls = 0
    /\ cleared = FALSE
    /\ t_s \in Strings
    /\ t_max \in 0..MaxBudget
    /\ t_out = None
    /\ SingleCaller
    /\ handles = <<Self>>

Truncate ==
    /\ t_out = None
    /\ t_out' = Some(truncate_to_bytes(t_s, t_max))
    /\ UNCHANGED <<entries, tail, head, len, max_entries, max_entry_bytes,
                   eviction_count, clock, ret, logged, log_calls, cleared, t_s, t_max>>
    /\ UNCHANGED tvars

NextTruncate == Truncate

SpecTruncate == InitTruncate /\ [][NextTruncate]_vars

(***************************************************************************)
(* The logger fed with empty, long and multi-byte-only text under budgets  *)
(* around every cap of create_entry                                        *)
(***************************************************************************)

MaxTextLogs == 1

\* max_entry_bytes: none, below and around the indicator's length, around
\* the operation cap, around operation cap + details cap, used up by the
\* metadata, and ample
TextBudgets == {0, 1, 10, 11, 45, 60, 256, 300, 768, 769, 800, 2048}

\* operation: "", "op", 100 x U+20AC (300 bytes)
Operations == << <<>>, <<111, 112>>, Rep(<<226, 130, 172>>, 100) >>

\* details: "", 300 x U+00E9 (600 bytes)
Details == << <<>>, Rep(<<195, 169>>, 300) >>

\* metadata: none, and the three pairs of ErrWide
Metadatas == << <<>>, ErrWide.metadata >>

\* source_ip: "", "10.0.0.1", 50 x U+20AC (150 bytes)
Sources == << <<>>, ip1, Rep(<<226, 130, 172>>, 50) >>

\* the arguments of log, by the positions of their texts in the lists above
TextNames == (1..Len(Operations)) \X (1..Len(Details)) \X (1..Len(Metadatas)) \X (1..Len(Sources))

TextInput(n) ==
    [err |-> [code |-> "E-CFG-100", operation |-> Operations[n[1]],
              details |-> Details[n[2]], metadata |-> Metadatas[n[3]],
              retryable |-> FALSE],
     source_ip |-> Sources[n[4]]]

InitText ==
    /\ \E n \in 0..1, b \in TextBudgets : new(n, b)
    /\ clock = 0
    /\ ret = NoRet
    /\ logged = <<>>
    /\ log_calls = 0
    /\ cleared = FALSE
    /\ HarnessIdle
    /\ SingleCaller
    /\ handles = <<Self>>

\* RingBufferLogger::log with the arguments named n
LogText(n) ==
    /\ log_calls < MaxTextLogs
    /\ LET entry == create_entry(TextInput(n).err, TextInput(n).source_ip)
       IN  /\ push(entry)
           /\ eviction_count' = IF evicted # None THEN eviction_count + 1
                                ELSE eviction_count
           /\ logged' = Append(logged, [input |-> n, entry |-> entry])
    /\ log_calls' = log_calls + 1
    /\ ret' = NoRet
    /\ UNCHANGED <<max_entries, max_entry_bytes, clock, cleared, t_s, t_max, t_out>>
    /\ UNCHANGED tvars

NextText ==
    \/ \E n \in TextNames : LogText(n)
    \/ Clear
    \/ CallGetAll
    \/ CallPayloadBytes

SpecText == InitText /\ [][NextText]_vars

(***************************************************************************)
(* Handles: impl Clone for RingBufferLogger                                *)
(***************************************************************************)

MaxHandles == 2

\* a clone that allocates a storage and a counter of its own
clone_detached(h) ==
    [buffer |-> h.buffer + 1, max_entries |-> h.max_entries,
     max_entry_bytes |-> h.max_entry_bytes, eviction_count |-> h.eviction_count + 1]

\* Clone::clone: Arc::clone of the two pointers, copies of the two numbers
clone(h) ==
    [buffer |-> h.buffer, max_entries |-> h.max_entries,
     max_entry_bytes |-> h.max_entry_bytes, eviction_count |-> h.eviction_count]

\* the Arcs of handle h point to the allocations that new made
SharesStorage(h) == handles[h].buffer = 0 /\ handles[h].eviction_count = 0

\* the capacities the handles and the threads run against
Capacities == {1, 2}

InitClone ==
    /\ \E n \in Capacities : new(n, 1024)
    /\ clock = 0
    /\ ret = NoRet
    /\ logged = <<>>
    /\ log_calls = 0
    /\ cleared = FALSE
    /\ HarnessIdle
    /\ SingleCaller
    /\ handles = <<Self>>

\* let logger2 = logger1.clone()
CloneHandle(h) ==
    /\ Len(handles) < MaxHandles
    /\ handles' = Append(handles, clone(handles[h]))
    /\ ret' = NoRet
    /\ UNCHANGED <<entries, tail, head, len, max_entries, max_entry_bytes,
                   eviction_count, clock, logged, log_calls, cleared,
                   t_s, t_max, t_out>>
    /\ UNCHANGED <<pc, th, calls, rw_writer, rw_readers, poisoned,
                   built, returned, preceded, commits, given, discarded>>

\* handles[h].log(err, source_ip)
LogVia(h, err, source_ip) ==
    /\ log_calls < MaxLogs
    /\ SharesStorage(h)
    /\ LET entry == create_entry(err, source_ip)
       IN  /\ push(entry)
           /\ eviction_count' = IF evicted # None THEN eviction_count + 1
                                ELSE eviction_count
           /\ logged' = Append(logged, [input |-> InputName(err, source_ip),
                                        entry |-> entry, via |-> h])
    /\ log_calls' = log_calls + 1
    /\ ret' = NoRet
    /\ UNCHANGED <<max_entries, max_entry_bytes, clock, cleared, t_s, t_max, t_out>>
    /\ UNCHANGED tvars

\* handles[h].clear()
ClearVia(h) == SharesStorage(h) /\ Clear

\* handles[h].len()
LenVia(h) == SharesStorage(h) /\ Return([op |-> "len", via |-> h, val |-> len])

\* handles[h].get_all()
GetAllVia(h) == SharesStorage(h) /\ Return([op |-> "get_all", via |-> h, val |-> get_all])

\* handles[h].eviction_count()
EvictionCountVia(h) ==
    SharesStorage(h) /\ Return([op |-> "eviction_count", via |-> h, val |-> eviction_count])

\* handles[h].capacity(): self.max_entries
CapacityVia(h) == Return([op |-> "capacity", via |-> h, val |-> handles[h].max_entries])

NextClone ==
    \E h \in 1..Len(handles) :
        \/ CloneHandle(h)
        \/ \E n \in {"plain", "retry"} : LogVia(h, Input(n).err, Input(n).source_ip)
        \/ ClearVia(h)
        \/ LenVia(h)
        \/ GetAllVia(h)
        \/ EvictionCountVia(h)
        \/ CapacityVia(h)

SpecClone == InitClone /\ [][NextClone]_vars

(***************************************************************************)
(* Threads calling the logger through cloned handles.  A call is a         *)
(* sequence of steps: what log does before it takes the lock, the          *)
(* acquisition of the guard, each statement of RingBuffer::push, the       *)
(* counter update and the release of the guard when the call returns.      *)
(***************************************************************************)

NumThreads == 2
MaxCalls == 3

Threads == 1..NumThreads

\* the calls begun so far, over all threads
Calls == Sum([i \in 1..NumThreads |-> calls[i]])

\* the queries the threads issue
Queries ==
    {[op |-> "get_all", count |-> 0, p |-> ""],
     [op |-> "get_recent", count |-> 1, p |-> ""],
     [op |-> "get_filtered", count |-> 0, p |-> "from_ip1"]}

\* AgentError::config(CFG_PARSE_FAILED, "op", format!("t{}-{}", i, j))
ThreadErr(i, j) ==
    [code |-> "E-CFG-100", operation |-> <<111, 112>>,
     details |-> <<116, 48 + i, 45, 48 + j>>,
     metadata |-> <<>>, retryable |-> FALSE]

\* the locals of a call that has not begun
NoCall ==
    [op |-> "none", count |-> 0, p |-> "", entry |-> None, evicted |-> None,
     result |-> None, recovered |-> FALSE]

InitThreads ==
    /\ \E n \in Capacities \cup {0} : new(n, 1024)
    /\ clock = 0
    /\ ret = NoRet
    /\ logged = <<>>
    /\ log_calls = 0
    /\ cleared = FALSE
    /\ HarnessIdle
    /\ pc = [t \in Threads |-> "idle"]
    /\ th = [t \in Threads |-> NoCall]
    /\ calls = [t \in Threads |-> 0]
    /\ rw_writer = 0
    /\ rw_readers = {}
    /\ poisoned = FALSE
    /\ handles = [t \in Threads |-> clone(Self)]
    /\ built = {}
    /\ returned = {}
    /\ preceded = {}
    /\ commits = {<<>>}

\* what the threads leave alone
Sequential == <<max_entries, max_entry_bytes, clock, ret, logged, t_s, t_max, t_out, handles,
                given>>
Storage == <<entries, tail, head, len>>
Lock == <<rw_writer, rw_readers, poisoned>>
History == <<built, returned, preceded, commits, log_calls, cleared, discarded>>

\* log, line 1: let entry = self.create_entry(err, source_ip)
StartLog(t) ==
    /\ pc[t] = "idle"
    /\ Calls < MaxCalls
    /\ LET entry == create_entry(ThreadErr(t, calls[t]), ip1)
       IN  /\ th' = [th EXCEPT ![t] = [NoCall EXCEPT !.op = "log", !.entry = Some(entry)]]
           /\ built' = built \cup {entry}
           /\ preceded' = preceded \cup {<<a, entry>> : a \in returned}
    /\ pc' = [pc EXCEPT ![t] = "write_buffer"]
    /\ calls' = [calls EXCEPT ![t] = calls[t] + 1]
    /\ UNCHANGED <<Sequential, Storage, Lock, eviction_count>>
    /\ UNCHANGED <<returned, commits, log_calls, cleared, discarded>>

\* clear is called
StartClear(t) ==
    /\ pc[t] = "idle"
    /\ Calls < MaxCalls
    /\ th' = [th EXCEPT ![t] = [NoCall EXCEPT !.op = "clear"]]
    /\ pc' = [pc EXCEPT ![t] = "write_buffer"]
    /\ calls' = [calls EXCEPT ![t] = calls[t] + 1]
    /\ UNCHANGED <<Sequential, Storage, Lock, History, eviction_count>>

\* get_all, get_recent or get_filtered is called
StartQuery(t, q) ==
    /\ pc[t] = "idle"
    /\ Calls < MaxCalls
    /\ th' = [th EXCEPT ![t] = [NoCall EXCEPT !.op = q.op, !.count = q.count, !.p = q.p]]
    /\ pc' = [pc EXCEPT ![t] = "read_buffer"]
    /\ calls' = [calls EXCEPT ![t] = calls[t] + 1]
    /\ UNCHANGED <<Sequential, Storage, Lock, History, eviction_count>>

\* the LockResult of RwLock::read and RwLock::write: the guard comes inside
\* Err once the lock is poisoned
LockResult == IF poisoned THEN "Err" ELSE "Ok"

\* a helper that unwraps the LockResult
guard_unwrap(r) == IF r = "Ok" THEN "guard" ELSE "panic"

\* the match in read_buffer and in write_buffer: both arms yield the guard
guard_of(r) == IF r = "Ok" THEN "guard" ELSE "guard"

\* a write lock that waits for nobody
write_unguarded == TRUE

\* a write lock that waits for the other writers only
write_shared == rw_writer = 0

\* RwLock::write returns only when no other guard is out
write_acquirable == rw_writer = 0 /\ rw_readers = {}

\* a read lock that waits for nobody
read_unguarded == TRUE

\* RwLock::read returns only when no write guard is out
read_acquirable == rw_writer = 0

\* let mut buffer = self.write_buffer()
AcquireWrite(t) ==
    /\ pc[t] = "write_buffer"
    /\ write_acquirable
    /\ IF guard_of(LockResult) = "guard"
       THEN /\ rw_writer' = t
            /\ pc' = [pc EXCEPT ![t] = IF th[t].op = "log" THEN "push_replace" ELSE "clear"]
       ELSE /\ rw_writer' = 0
            /\ pc' = [pc EXCEPT ![t] = "panicked"]
    /\ th' = [th EXCEPT ![t].recovered = poisoned]
    /\ UNCHANGED <<Sequential, Storage, History, eviction_count, calls, rw_readers, poisoned>>

\* push, line 1: let evicted = self.entries[self.tail].replace(entry)
PushReplace(t) ==
    /\ pc[t] = "push_replace"
    /\ th' = [th EXCEPT ![t].evicted = entries[tail]]
    /\ entries' = [entries EXCEPT ![tail] = th[t].entry]
    /\ pc' = [pc EXCEPT ![t] = "push_tail"]
    /\ UNCHANGED <<Sequential, Lock, History, eviction_count, calls, tail, head, len>>

\* push, line 2: self.tail = (self.tail + 1) % cap
PushTail(t) ==
    /\ pc[t] = "push_tail"
    /\ tail' = (tail + 1) % RingBuffer_capacity
    /\ pc' = [pc EXCEPT ![t] = "push_len"]
    /\ UNCHANGED <<Sequential, Lock, History, eviction_count, calls, th, entries, head, len>>

\* push, the if: self.len += 1, or the head moves past the overwritten slot
PushLen(t) ==
    /\ pc[t] = "push_len"
    /\ IF len < RingBuffer_capacity
       THEN len' = len + 1 /\ head' = head
       ELSE head' = (head + 1) % RingBuffer_capacity /\ len' = len
    /\ pc' = [pc EXCEPT ![t] = "fetch_add"]
    /\ UNCHANGED <<Sequential, Lock, History, eviction_count, calls, th, entries, tail>>

\* a counter update for every push, evicting or not
FetchAdd_every_push(t) ==
    /\ pc[t] = "fetch_add"
    /\ eviction_count' = eviction_count + 1
    /\ pc' = [pc EXCEPT ![t] = "drop_write"]
    /\ UNCHANGED <<Sequential, Storage, Lock, History, calls, th>>

\* if let Some(_evicted) = buffer.push(entry) { self.eviction_count.fetch_add(1) }
FetchAdd(t) ==
    /\ pc[t] = "fetch_add"
    /\ eviction_count' = IF th[t].evicted # None THEN eviction_count + 1 ELSE eviction_count
    /\ pc' = [pc EXCEPT ![t] = "drop_write"]
    /\ UNCHANGED <<Sequential, Storage, Lock, History, calls, th>>

\* clear: buffer.clear() under the write guard
ClearBuffer(t) ==
    /\ pc[t] = "clear"
    /\ RingBuffer_clear
    /\ discarded' = discarded + len
    /\ pc' = [pc EXCEPT ![t] = "drop_write"]
    /\ UNCHANGED <<Sequential, Lock, eviction_count, calls, th>>
    /\ UNCHANGED <<built, returned, preceded, commits, log_calls, cleared>>

\* log or clear returns: the write guard is dropped
ReleaseWrite(t) ==
    /\ pc[t] = "drop_write"
    /\ rw_writer' = IF rw_writer = t THEN 0 ELSE rw_writer
    /\ pc' = [pc EXCEPT ![t] = "idle"]
    /\ commits' = commits \cup {iter}
    /\ IF th[t].op = "log"
       THEN /\ returned' = returned \cup {th[t].entry[1]}
            /\ log_calls' = log_calls + 1
            /\ cleared' = cleared
       ELSE /\ returned' = returned
            /\ log_calls' = log_calls
            /\ cleared' = TRUE
    /\ UNCHANGED <<Sequential, Storage, eviction_count, calls, th, rw_readers, poisoned,
                   built, preceded, discarded>>

\* let buffer = self.read_buffer()
AcquireRead(t) ==
    /\ pc[t] = "read_buffer"
    /\ read_acquirable
    /\ IF guard_of(LockResult) = "guard"
       THEN /\ rw_readers' = rw_readers \cup {t}
            /\ pc' = [pc EXCEPT ![t] = "collect"]
       ELSE /\ rw_readers' = rw_readers
            /\ pc' = [pc EXCEPT ![t] = "panicked"]
    /\ th' = [th EXCEPT ![t].recovered = poisoned]
    /\ UNCHANGED <<Sequential, Storage, History, eviction_count, calls, rw_writer, poisoned>>

\* what the body of a query computes from the storage
query(op, count, p) ==
    CASE op = "get_all" -> get_all
      [] op = "get_recent" -> get_recent(count)
      [] op = "get_filtered" -> get_filtered(p)

\* the body of the query, under the read guard
Collect(t) ==
    /\ pc[t] = "collect"
    /\ th' = [th EXCEPT ![t].result = Some(query(th[t].op, th[t].count, th[t].p))]
    /\ pc' = [pc EXCEPT ![t] = "drop_read"]
    /\ UNCHANGED <<Sequential, Storage, Lock, History, eviction_count, calls>>

\* the query returns: the read guard is dropped
ReleaseRead(t) ==
    /\ pc[t] = "drop_read"
    /\ rw_readers' = rw_readers \ {t}
    /\ pc' = [pc EXCEPT ![t] = "idle"]
    /\ UNCHANGED <<Sequential, Storage, History, eviction_count, calls, th, rw_writer, poisoned>>

NextThreads ==
    \E t \in Threads :
        \/ StartLog(t)
        \/ StartClear(t)
        \/ \E q \in Queries : StartQuery(t, q)
        \/ AcquireWrite(t)
        \/ PushReplace(t)
        \/ PushTail(t)
        \/ PushLen(t)
        \/ FetchAdd(t)
        \/ ClearBuffer(t)
        \/ ReleaseWrite(t)
        \/ AcquireRead(t)
        \/ Collect(t)
        \/ ReleaseRead(t)

SpecThreads == InitThreads /\ [][NextThreads]_vars

(***************************************************************************)
(* The same threads with a clock that advances between their steps         *)
(***************************************************************************)

MaxClock == 1

\* a second passes: SystemTime::now() returns one more
Tick ==
    /\ clock < MaxClock
    /\ clock' = clock + 1
    /\ UNCHANGED <<max_entries, max_entry_bytes, ret, logged, t_s, t_max, t_out, handles,
                   given>>
    /\ UNCHANGED <<Storage, Lock, History, eviction_count, calls, th, pc>>

NextTicks ==
    \/ NextThreads
    \/ Tick

SpecTicks == InitThreads /\ [][NextTicks]_vars

(***************************************************************************)
(* Threads that go on calling: after their log calls they issue clear and  *)
(* queries again and again.  The operating system runs every thread that   *)
(* can take a step; which waiting thread RwLock lets in is left open, as   *)
(* std::sync::RwLock promises no priority policy.                          *)
(***************************************************************************)

\* clear is called, once more
RepeatClear(t) ==
    /\ pc[t] = "idle"
    /\ th' = [th EXCEPT ![t] = [NoCall EXCEPT !.op = "clear"]]
    /\ pc' = [pc EXCEPT ![t] = "write_buffer"]
    /\ UNCHANGED <<Sequential, Storage, Lock, History, eviction_count, calls>>

\* get_all, get_recent or get_filtered is called, once more
RepeatQuery(t, q) ==
    /\ pc[t] = "idle"
    /\ th' = [th EXCEPT ![t] = [NoCall EXCEPT !.op = q.op, !.count = q.count, !.p = q.p]]
    /\ pc' = [pc EXCEPT ![t] = "read_buffer"]
    /\ UNCHANGED <<Sequential, Storage, Lock, History, eviction_count, calls>>

\* the steps of a call that has begun
Run(t) ==
    \/ AcquireWrite(t)
    \/ PushReplace(t)
    \/ PushTail(t)
    \/ PushLen(t)
    \/ FetchAdd(t)
    \/ ClearBuffer(t)
    \/ ReleaseWrite(t)
    \/ AcquireRead(t)
    \/ Collect(t)
    \/ ReleaseRead(t)

NextFair ==
    \E t \in Threads :
        \/ StartLog(t)
        \/ RepeatClear(t)
        \/ \E q \in Queries : RepeatQuery(t, q)
        \/ Run(t)

\* preemptive threads: a call that can take its next step takes it
SpecFair == InitThreads /\ [][NextFair]_vars /\ \A t \in Threads : WF_vars(Run(t))

(***************************************************************************)
(* The same threads, one of which may panic while it holds the write       *)
(* guard: the guard is dropped during unwinding and the lock is poisoned   *)
(***************************************************************************)

\* the thread holding the write guard panics
Fail(t) ==
    /\ pc[t] \in {"push_replace", "push_tail", "push_len", "fetch_add", "clear", "drop_write"}
    /\ ~poisoned
    /\ poisoned' = TRUE
    /\ rw_writer' = 0
    /\ pc' = [pc EXCEPT ![t] = "failed"]
    /\ UNCHANGED <<Sequential, Storage, History, eviction_count, calls, th, rw_readers>>

NextPoison ==
    \/ NextThreads
    \/ \E t \in Threads : Fail(t)

SpecPoison == InitThreads /\ [][NextPoison]_vars

(***************************************************************************)
(* Properties                                                              *)
(***************************************************************************)

\* the entries built by the log calls since construction or the last clear
LoggedEntries == [i \in 1..Len(logged) |-> logged[i].entry]

\* the last n elements of s
Suffix(s, n) == SubSeq(s, Len(s) - n + 1, Len(s))

\* the last min(M, C) logged entries, oldest first
Retained == Suffix(LoggedEntries, Min(Len(logged), max_entries))

\* C1: on a logger that was never cleared, after M log calls len() is
\* min(M, C), C being the capacity (max_entries coerced to at least 1)
C1_LenIsMin ==
    ~cleared =>
        /\ len = Min(log_calls, capacity)
        /\ ret.op = "len" => ret.val = Min(log_calls, capacity)

C1_Witness ==
    /\ ~cleared
    /\ log_calls > capacity
    /\ capacity >= 2
    /\ ret.op = "len"

\* C2: on a logger that was never cleared, after M log calls
\* eviction_count() is max(0, M - C)
C2_EvictionCountIsExcess ==
    ~cleared =>
        /\ eviction_count = Max(0, log_calls - capacity)
        /\ ret.op = "eviction_count" => ret.val = Max(0, log_calls - capacity)

C2_Witness ==
    /\ ~cleared
    /\ log_calls >= capacity + 2
    /\ ret.op = "eviction_count"
    /\ ret.val = 2

\* C3: eviction is first-in first-out: the storage holds, oldest first,
\* exactly the last min(M, C) entries logged since it was last empty, so a
\* log call on a full logger drops the oldest entry and no other
C3_Fifo == iter = Retained

C3_Witness ==
    /\ Len(logged) > capacity
    /\ capacity >= 2
    /\ \E i, j \in 1..Len(iter) : iter[i] # iter[j]

\* C4: get_all() and get_recent(k) list the retained entries newest first,
\* and get_recent(k) is the first min(k, len()) elements of get_all()
C4_NewestFirst ==
    /\ ret.op = "get_all" => ret.val = Rev(Retained)
    /\ ret.op = "get_recent" =>
          /\ ret.val = Take(Rev(Retained), ret.arg)
          /\ ret.val = Take(get_all, ret.arg)

C4_Witness ==
    /\ ret.op = "get_recent"
    /\ ret.arg = 2
    /\ len >= 3
    /\ ret.val[1] # ret.val[2]
    /\ eviction_count >= 1

\* number of positions of s holding e
Count(e, s) == Cardinality({i \in 1..Len(s) : s[i] = e})

Range(s) == {s[i] : i \in 1..Len(s)}

\* C5: get_filtered(predicate) is the subsequence of get_all() that
\* satisfies the predicate, in get_all()'s newest-first order
C5_FilteredNewestFirst ==
    ret.op = "get_filtered" =>
        ret.val = SelectSeq(get_all, LAMBDA e : predicate(ret.arg, e))

\* C6: get_filtered(predicate) holds every stored entry that satisfies the
\* predicate as often as get_all() holds it, and no entry that fails it
C6_FilteredExactly ==
    ret.op = "get_filtered" =>
        /\ \A e \in Range(get_all) \cup Range(ret.val) :
              Count(e, ret.val) = IF predicate(ret.arg, e) THEN Count(e, get_all) ELSE 0
        /\ Len(ret.val) = Len(SelectSeq(get_all, LAMBDA e : predicate(ret.arg, e)))

C6_Witness ==
    /\ ret.op = "get_filtered"
    /\ Len(ret.val) >= 2
    /\ Len(ret.val) < Len(get_all)
    /\ ret.val[1] # ret.val[2]

\* the entries held in the slots, in slot order
Stored == {entries[i][1] : i \in {j \in DOMAIN entries : entries[j] # None}}

\* C7: every stored entry has size_bytes <= max_entry_bytes
C7_EntryWithinBudget == \A e \in Stored : e.size_bytes <= max_entry_bytes

\* a stored entry whose details and source identifier were both cut to fit
C7_Witness ==
    \E i \in 1..Len(logged) :
        /\ logged[i].entry \in Stored
        /\ logged[i].entry.details # Input(logged[i].input).err.details
        /\ logged[i].entry.source_ip # Input(logged[i].input).source_ip
        /\ logged[i].entry.size_bytes = max_entry_bytes
        /\ max_entry_bytes > 0

RECURSIVE SlotBytes(_)
SlotBytes(n) ==
    IF n = 0 THEN 0
    ELSE SlotBytes(n - 1)
           + (IF entries[n - 1] # None THEN entries[n - 1][1].size_bytes ELSE 0)

\* C8: payload_bytes() is the sum of size_bytes over the occupied slots and
\* is at most capacity() * max_entry_bytes
C8_PayloadBounded ==
    /\ payload_bytes = SlotBytes(RingBuffer_capacity)
    /\ payload_bytes <= capacity * max_entry_bytes
    /\ ret.op = "payload_bytes" =>
          /\ ret.val = SlotBytes(RingBuffer_capacity)
          /\ ret.val <= capacity * max_entry_bytes

C8_Witness ==
    /\ ret.op = "payload_bytes"
    /\ ret.val > 0
    /\ cleared
    /\ eviction_count > 0
    /\ len >= 2

(* truncate_to_bytes *)

\* well-formed UTF-8: every character's lead byte is followed by exactly its
\* continuation bytes
RECURSIVE Utf8Valid(_)
Utf8Valid(s) ==
    IF s = <<>> THEN TRUE
    ELSE LET b == s[1]
             w == IF b >= 0 /\ b < 128 THEN 1
                  ELSE IF b >= 194 /\ b < 224 THEN 2
                  ELSE IF b >= 224 /\ b < 240 THEN 3
                  ELSE IF b >= 240 /\ b < 245 THEN 4
                  ELSE 0
         IN  /\ w > 0
             /\ Len(s) >= w
             /\ \A j \in 2..w : s[j] >= 128 /\ s[j] < 192
             /\ Utf8Valid(SubSeq(s, w + 1, Len(s)))

\* C9: truncate_to_bytes(s, B) has at most B bytes, splits no character,
\* and equals s exactly when s has at most B bytes
C9_TruncateContract ==
    t_out # None =>
        /\ Len(t_out[1]) <= t_max
        /\ Utf8Valid(t_out[1])
        /\ (t_out[1] = t_s) <=> (Len(t_s) <= t_max)

\* a multi-byte string cut inside a character's encoding, and a string of
\* exactly B bytes
C9_Witness ==
    /\ t_out # None
    /\ Len(t_s) > t_max
    /\ t_max > Len(indicator)
    /\ ~is_char_boundary(t_s, t_max - Len(indicator))
    /\ Len(t_out[1]) > Len(indicator)
    /\ Len(t_out[1]) < t_max

(* signalling of truncation in the stored fields *)

EndsWith(s, suffix) ==
    Len(s) >= Len(suffix) /\ SubSeq(s, Len(s) - Len(suffix) + 1, Len(s)) = suffix

\* bytes of the first n stored metadata pairs of entry e
RECURSIVE PairBytes(_, _)
PairBytes(e, n) ==
    IF n = 0 THEN 0
    ELSE PairBytes(e, n - 1) + Len(e.metadata[n][1]) + Len(e.metadata[n][2])

\* budget left before the n-th stored metadata pair (n = pairs + 1: before
\* the source identifier), from the lengths of what the entry stores
RemainingBefore(e, n) ==
    max_entry_bytes - Len(e.operation) - Len(e.details) - PairBytes(e, n - 1)

\* the truncated fields of one log call: <<original, stored, byte budget>>
FieldCuts(l) ==
    LET e == l.entry
        err == Input(l.input).err
        source_ip == Input(l.input).source_ip
    IN  { <<err.operation, e.operation, Min(max_entry_bytes, 256)>>,
          <<err.details, e.details, Min(max_entry_bytes - Len(e.operation), 512)>> }
        \cup { <<err.metadata[n][2], e.metadata[n][2],
                 Min(RemainingBefore(e, n) - Len(e.metadata[n][1]), 128)>> :
               n \in 1..Len(e.metadata) }
        \cup ( IF RemainingBefore(e, Len(e.metadata) + 1) = 0 THEN {}
               ELSE { <<source_ip, e.source_ip,
                        Min(RemainingBefore(e, Len(e.metadata) + 1), 128)>> } )

\* C10 as stated: a stored field that differs from the original ends with
\* the complete truncation indicator, whatever its byte budget
C10_AlwaysFullIndicator ==
    \A i \in 1..Len(logged) :
        LET e == logged[i].entry
            err == Input(logged[i].input).err
            source_ip == Input(logged[i].input).source_ip
        IN  /\ e.operation # err.operation => EndsWith(e.operation, indicator)
            /\ e.details # err.details => EndsWith(e.details, indicator)
            /\ \A n \in 1..Len(e.metadata) :
                  e.metadata[n][2] # err.metadata[n][2]
                      => EndsWith(e.metadata[n][2], indicator)
            /\ e.source_ip # source_ip => EndsWith(e.source_ip, indicator)

\* C10 amended: a field truncated under a byte budget B ends with the
\* complete indicator when B is at least the indicator's length, and is the
\* first B bytes of the indicator when B is smaller (empty for B = 0); a
\* source identifier left with no budget is stored as the omitted marker
C10_IndicatorWithinBudget ==
    \A i \in 1..Len(logged) :
        /\ \A c \in FieldCuts(logged[i]) :
              c[2] # c[1] =>
                  IF c[3] >= Len(indicator) THEN EndsWith(c[2], indicator)
                  ELSE c[2] = SubSeq(indicator, 1, c[3])
        /\ RemainingBefore(logged[i].entry, Len(logged[i].entry.metadata) + 1) = 0
              => logged[i].entry.source_ip = omitted

\* one entry with a field cut to content plus the complete indicator and a
\* field cut to a proper, non-empty prefix of the indicator
C10_Witness ==
    \E i \in 1..Len(logged) :
        \E c \in FieldCuts(logged[i]), d \in FieldCuts(logged[i]) :
            /\ c[2] # c[1] /\ c[3] > Len(indicator) /\ Len(c[2]) > Len(indicator)
            /\ d[2] # d[1] /\ d[3] < Len(indicator) /\ d[3] > 0

(* threads *)

\* a thread at one of these places holds the write guard
WriteSection == {"push_replace", "push_tail", "push_len", "fetch_add", "clear", "drop_write"}

\* a thread at one of these places holds a read guard
ReadSection == {"collect", "drop_read"}

Writers == {t \in Threads : pc[t] \in WriteSection}
Readers == {t \in Threads : pc[t] \in ReadSection}

\* the thread that logged an entry: the digit after "t" in its details
Logger(e) == e.details[2]

\* the position of an entry in a list, 0 when it is not there
IndexOf(s, e) == IF \E i \in 1..Len(s) : s[i] = e
                 THEN CHOOSE i \in 1..Len(s) : s[i] = e
                 ELSE 0

\* C11: whenever no log or clear call is in progress and nothing was cleared,
\* the storage holds min(number of completed log calls, capacity) entries,
\* all different, each one equal in every field to an entry that one log
\* call built
C11_ConcurrentLogsAllWhole ==
    (Writers = {} /\ ~cleared) =>
        /\ len = Min(log_calls, capacity)
        /\ Len(iter) = len
        /\ \A i \in 1..Len(iter) : iter[i] \in returned
        /\ \A i \in 1..Len(iter), j \in 1..Len(iter) : iter[i] = iter[j] => i = j

\* every call was a log, all have returned, two threads took part and more
\* entries were logged than the storage holds
C11_Witness ==
    /\ \A t \in Threads : pc[t] = "idle"
    /\ log_calls = MaxCalls
    /\ log_calls > capacity
    /\ \E a \in returned, b \in returned : Logger(a) # Logger(b)

\* C12: at most one thread holds the write guard, and while one does no
\* thread holds a read guard
C12_ReadersOrOneWriter ==
    /\ Cardinality(Writers) <= 1
    /\ Writers # {} => Readers = {}

\* two queries hold read guards together on a storage that holds an entry
C12_Witness ==
    /\ Cardinality(Readers) >= 2
    /\ Writers = {}
    /\ len > 0

\* a query evaluated on storage contents c (oldest first)
QueryOn(c, op, count, p) ==
    CASE op = "get_all" -> Rev(c)
      [] op = "get_recent" -> Take(Rev(c), count)
      [] op = "get_filtered" -> SelectSeq(c, LAMBDA e : predicate(p, e))

\* C13: the result of every get_recent, get_all and get_filtered call is the
\* query evaluated on the contents the storage had when it was constructed or
\* when some log or clear call released it
C13_ConsistentSnapshot ==
    \A t \in Threads :
        th[t].result # None =>
            \E c \in commits : th[t].result[1] = QueryOn(c, th[t].op, th[t].count, th[t].p)

\* a query has read a non-empty storage while a log call built its entry and
\* waits for the guard
C13_Witness ==
    \E t \in Threads, u \in Threads :
        /\ pc[t] = "drop_read"
        /\ th[t].result # None
        /\ th[t].result[1] # <<>>
        /\ pc[u] = "write_buffer"
        /\ th[u].op = "log"

\* C14: in every get_all result that holds the entries of two log calls of
\* which the first returned before the second started, the first call's
\* entry comes after (is older than) the second's
C14_RealTimeOrder ==
    \A t \in Threads :
        (th[t].op = "get_all" /\ th[t].result # None) =>
            \A o \in preceded :
                LET r == th[t].result[1]
                IN  (IndexOf(r, o[1]) > 0 /\ IndexOf(r, o[2]) > 0)
                        => IndexOf(r, o[1]) > IndexOf(r, o[2])

\* a get_all result holds two entries logged by different threads, one call
\* after the other had returned
C14_Witness ==
    \E t \in Threads :
        /\ th[t].op = "get_all"
        /\ th[t].result # None
        /\ \E o \in preceded :
              /\ Logger(o[1]) # Logger(o[2])
              /\ IndexOf(th[t].result[1], o[1]) > 0
              /\ IndexOf(th[t].result[1], o[2]) > 0

(* handles *)

\* C15: every handle points to the storage and to the counter that new
\* allocated and carries the capacity given to new; so len(), get_all() and
\* eviction_count() through any handle show the log and clear calls made
\* through all handles, and capacity() is the same through every handle
C15_ClonesShare ==
    /\ \A h \in 1..Len(handles) :
          /\ handles[h].buffer = handles[1].buffer
          /\ handles[h].eviction_count = handles[1].eviction_count
          /\ handles[h].max_entries = handles[1].max_entries
          /\ handles[h].max_entry_bytes = handles[1].max_entry_bytes
    /\ ret.op = "len" => ret.val = Min(Len(logged), capacity)
    /\ ret.op = "get_all" => ret.val = Rev(Retained)
    /\ (ret.op = "eviction_count" /\ ~cleared) => ret.val = Max(0, log_calls - capacity)
    /\ ret.op = "capacity" => ret.val = capacity

\* len() through a clone counts an entry that was logged through the
\* original handle
C15_Witness ==
    /\ ret.op = "len"
    /\ ret.via = 2
    /\ ret.val = Len(logged)
    /\ Len(logged) > 0
    /\ \A i \in 1..Len(logged) : logged[i].via = 1

(* clear and the eviction counter *)

\* C16: right after clear() the storage is as new() made it (every slot
\* empty, head, tail and len 0, so len() = 0, get_all() empty and
\* payload_bytes() = 0) with the capacity it had; after M further log calls
\* len() is min(M, C) and get_all() is the last min(M, C) logged entries,
\* newest first
C16_ClearIsFresh ==
    cleared =>
        /\ RingBuffer_capacity = capacity
        /\ logged = <<>> =>
              /\ entries = RingBuffer_new(capacity)
              /\ head = 0 /\ tail = 0 /\ len = 0
              /\ get_all = <<>>
              /\ payload_bytes = 0
        /\ len = Min(Len(logged), capacity)
        /\ get_all = Rev(Retained)
        /\ ret.op = "len" => ret.val = Min(Len(logged), capacity)
        /\ ret.op = "get_all" => ret.val = Rev(Retained)
        /\ ret.op = "payload_bytes" => ret.val = Sum([i \in 1..Len(Retained) |-> Retained[i].size_bytes])

\* the storage was cleared after it had wrapped, has wrapped again since,
\* and get_all() was called
C16_Witness ==
    /\ cleared
    /\ Len(logged) > capacity
    /\ eviction_count > Len(logged) - capacity
    /\ ret.op = "get_all"
    /\ Len(ret.val) = capacity

\* C17: no step decreases eviction_count; a step that is not a log call
\* (clear, a query) leaves it as it is, and a log call adds 0 or 1
C17_EvictionCountMonotone ==
    [][/\ eviction_count' \in {eviction_count, eviction_count + 1}
       /\ log_calls' = log_calls => eviction_count' = eviction_count]_vars

\* the storage has just been cleared and the counter still shows the
\* evictions made before
C17_Witness ==
    /\ cleared
    /\ logged = <<>>
    /\ eviction_count >= 2

(* create_entry: metadata and size_bytes *)

\* C19: the stored metadata is a prefix of the record's metadata: stored pair
\* i has the i-th key unchanged and the i-th value truncated to the smaller of
\* 128 and the budget left after the key; when pairs are missing, the first
\* missing pair did not fit what was left (no budget, or a key at least as
\* long as the budget), and no later pair is stored
C19_MetadataPrefix ==
    \A i \in 1..Len(logged) :
        LET md == Input(logged[i].input).err.metadata
            e == logged[i].entry
            n == Len(e.metadata)
        IN  /\ n <= Len(md)
            /\ \A j \in 1..n :
                  /\ e.metadata[j][1] = md[j][1]
                  /\ Min(RemainingBefore(e, j) - Len(md[j][1]), 128) >= 1
                  /\ e.metadata[j][2] =
                        truncate_to_bytes(md[j][2],
                            Min(RemainingBefore(e, j) - Len(md[j][1]), 128))
            /\ n < Len(md) =>
                  \/ RemainingBefore(e, n + 1) = 0
                  \/ Len(md[n + 1][1]) >= RemainingBefore(e, n + 1)

\* a record of three pairs stored with its first pair only: the second did
\* not fit what was left, the third would have
C19_Witness ==
    \E i \in 1..Len(logged) :
        LET md == Input(logged[i].input).err.metadata
            e == logged[i].entry
            r == RemainingBefore(e, 2)
        IN  /\ Len(md) = 3
            /\ Len(e.metadata) = 1
            /\ r > 0
            /\ Len(md[2][1]) >= r
            /\ Len(md[3][1]) < r
            /\ Len(md[3][1]) + Len(truncate_to_bytes(md[3][2], Min(r - Len(md[3][1]), 128))) <= r

\* bytes of the text an entry stores
StoredBytes(e) ==
    Len(e.operation) + Len(e.details) + PairBytes(e, Len(e.metadata)) + Len(e.source_ip)

\* C20: size_bytes of every constructed entry is the number of bytes of the
\* text stored in it: operation, details, the stored metadata keys and
\* values and the stored source identifier
C20_SizeIsStoredBytes ==
    \A i \in 1..Len(logged) : logged[i].entry.size_bytes = StoredBytes(logged[i].entry)

(* poisoning *)

\* C18: no call ends by panicking on a poisoned lock, and a call waiting for
\* a guard that the lock can give takes it whether or not the lock is
\* poisoned
C18_PoisonRecovered ==
    \A t \in Threads :
        /\ pc[t] # "panicked"
        /\ (pc[t] = "write_buffer" /\ rw_writer = 0 /\ rw_readers = {})
              => ENABLED AcquireWrite(t)
        /\ (pc[t] = "read_buffer" /\ rw_writer = 0) => ENABLED AcquireRead(t)

\* after a thread failed inside push, another thread's log call and its
\* get_all call both took their guard from the poisoned lock and returned
C18_Witness ==
    \E t \in Threads, u \in Threads :
        /\ pc[u] = "failed"
        /\ th[u].op = "log"
        /\ poisoned
        /\ pc[t] = "idle"
        /\ th[t].op = "get_all"
        /\ th[t].recovered
        /\ th[t].result # None
        /\ \E e \in returned : Logger(e) # Logger(th[u].entry[1])

(* the circular storage *)

\* the slot indices head, head + 1, ..., head + len - 1 (mod capacity)
Window == {(head + k) % RingBuffer_capacity : k \in 0..(len - 1)}

\* C29: tail = (head + len) mod capacity, a slot is occupied exactly when
\* its index is in the window of len slots that starts at head, and
\* get_all() has len elements
C29_RingShape ==
    /\ tail = (head + len) % RingBuffer_capacity
    /\ \A i \in DOMAIN entries : entries[i] # None <=> i \in Window
    /\ Len(get_all) = len
    /\ ret.op = "get_all" => Len(ret.val) = len

\* the storage is full, the window starts in the middle of the slot array
\* and wraps around its end, and get_all() was called
C29_Witness ==
    /\ RingBuffer_capacity >= 2
    /\ len = RingBuffer_capacity
    /\ head > 0
    /\ tail = head
    /\ ret.op = "get_all"

(* truncate_to_bytes: the exact result *)

\* the lengths of the prefixes of s that end on a character boundary and
\* have at most n bytes
PrefixLengths(s, n) == {k \in 0..Min(n, Len(s)) : Utf8Valid(SubSeq(s, 1, k))}

\* the longest of them
LongestPrefix(s, n) ==
    LET k == CHOOSE k \in PrefixLengths(s, n) : \A j \in PrefixLengths(s, n) : j <= k
    IN  SubSeq(s, 1, k)

\* C27: for a string of more than B > 0 bytes, truncate_to_bytes(s, B) is the
\* first B bytes of the indicator when B is at most the indicator's length,
\* and otherwise the longest prefix of s that ends on a character boundary
\* within B - Len(indicator) bytes, followed by the indicator
C27_TruncateExact ==
    (t_out # None /\ Len(t_s) > t_max /\ t_max > 0) =>
        IF t_max <= Len(indicator)
        THEN t_out[1] = SubSeq(indicator, 1, t_max)
        ELSE t_out[1] = LongestPrefix(t_s, t_max - Len(indicator)) \o indicator

\* a string of three-byte characters whose content budget falls two bytes
\* into a character: the result keeps the characters before it
C27_Witness ==
    /\ t_out # None
    /\ Len(t_s) > t_max
    /\ t_max > Len(indicator)
    /\ t_s[1] = 226
    /\ Len(t_out[1]) > Len(indicator)
    /\ Len(t_out[1]) = t_max - 2

(* create_entry on empty, long and multi-byte-only text *)

\* budget left before the source identifier of the i-th logged entry
SourceBudget(i) ==
    RemainingBefore(logged[i].entry, Len(logged[i].entry.metadata) + 1)

\* C21: with no budget left the stored source identifier is the omitted
\* marker whatever the caller gave; with budget left it is the caller's
\* identifier truncated to min(remaining, 128) bytes; so it is empty exactly
\* when budget was left and the caller's identifier was empty
C21_SourceIdentifier ==
    \A i \in 1..Len(logged) :
        LET e == logged[i].entry
            source_ip == TextInput(logged[i].input).source_ip
        IN  /\ SourceBudget(i) = 0 => e.source_ip = omitted
            /\ SourceBudget(i) > 0 =>
                  e.source_ip = truncate_to_bytes(source_ip, Min(SourceBudget(i), 128))
            /\ e.source_ip = <<>> <=> (SourceBudget(i) > 0 /\ source_ip = <<>>)

\* the caller gave an empty identifier, the details used up a budget that
\* is not zero, and the entry stores the omitted marker
C21_Witness ==
    \E i \in 1..Len(logged) :
        /\ TextInput(logged[i].input).source_ip = <<>>
        /\ max_entry_bytes > 0
        /\ SourceBudget(i) = 0
        /\ logged[i].entry.source_ip = omitted
        /\ Len(logged[i].entry.source_ip) = 11

\* text made of bytes: no slice that built it failed (a slice outside the
\* string or inside a character's encoding yields Panic)
Sliced(s) == \A j \in 1..Len(s) : s[j] >= 0 /\ s[j] <= 255

\* C25: no operation fails: the storage has at least one slot (no modulo by
\* zero), head and tail are slot indices, and every piece of stored text was
\* sliced inside its string and on a character boundary
C25_Total ==
    /\ RingBuffer_capacity >= 1
    /\ head \in DOMAIN entries
    /\ tail \in DOMAIN entries
    /\ len <= RingBuffer_capacity
    /\ \A i \in 1..Len(logged) :
          LET e == logged[i].entry
          IN  /\ Sliced(e.operation)
              /\ Sliced(e.details)
              /\ Sliced(e.source_ip)
              /\ \A j \in 1..Len(e.metadata) : Sliced(e.metadata[j][2])
    /\ ret.op = "get_all" => Len(ret.val) = len

\* new(0, b) with an error of multi-byte characters only, whose operation
\* was cut, and get_all() returned the entry
C25_Witness ==
    /\ given = 0
    /\ ret.op = "get_all"
    /\ Len(ret.val) = 1
    /\ Len(logged) = 1
    /\ logged[1].input[1] = 3
    /\ logged[1].input[4] = 3
    /\ Len(ret.val[1].operation) > Len(indicator)
    /\ Len(ret.val[1].operation) < max_entry_bytes
    /\ ret.val[1].details = <<>>

\* C26: every stored entry has operation <= min(256, max_entry_bytes),
\* details <= min(512, max_entry_bytes - length of the stored operation),
\* every metadata value <= 128 and the source identifier <= 128 bytes
C26_FieldCaps ==
    \A e \in Stored :
        /\ Len(e.operation) <= Min(256, max_entry_bytes)
        /\ Len(e.details) <= Min(512, max_entry_bytes - Len(e.operation))
        /\ \A j \in 1..Len(e.metadata) : Len(e.metadata[j][2]) <= 128
        /\ Len(e.source_ip) <= 128

\* an entry whose operation, details, a metadata value and source identifier
\* were all longer than their caps and are stored at 256, 512, 128 and 127
\* bytes
C26_Witness ==
    \E e \in Stored :
        /\ Len(e.operation) = 256
        /\ Len(e.details) = 512
        /\ \E j \in 1..Len(e.metadata) : Len(e.metadata[j][2]) = 128
        /\ Len(e.source_ip) = 127

\* the running size and remaining of create_entry for error err: after the
\* operation step, after the details step, and after the loop has gone
\* through the first j metadata pairs (j = 0 .. number of pairs)
Counters(err) ==
    LET operation == truncate_to_bytes(err.operation, Min(max_entry_bytes, 256))
        c1 == [size |-> 0 + Len(operation),
               remaining |-> saturating_sub(max_entry_bytes, Len(operation)),
               before |-> max_entry_bytes, used |-> Len(operation)]
        details == truncate_to_bytes(err.details, Min(c1.remaining, 512))
        c2 == [size |-> c1.size + Len(details),
               remaining |-> saturating_sub(c1.remaining, Len(details)),
               before |-> c1.remaining, used |-> Len(details)]
        loop(j) == metadata_loop(SubSeq(err.metadata, 1, j), 1,
                       [size |-> c2.size, remaining |-> c2.remaining, vec |-> <<>>])
    IN  <<c1, c2>> \o
        [j \in 1..Len(err.metadata) |->
            [size |-> loop(j).size, remaining |-> loop(j).remaining,
             before |-> loop(j - 1).remaining,
             used |-> loop(j).size - loop(j - 1).size]]

\* C30: after the operation step, the details step and every metadata pair
\* size + remaining = max_entry_bytes; what a step consumes is at most what
\* remained before it, and a stored pair's key is shorter than what remained
C30_CountersAddUp ==
    \A i \in 1..Len(logged) :
        LET err == TextInput(logged[i].input).err
            e == logged[i].entry
            c == Counters(err)
        IN  /\ \A k \in 1..Len(c) :
                  /\ c[k].size + c[k].remaining = max_entry_bytes
                  /\ c[k].used <= c[k].before
                  /\ c[k].remaining = c[k].before - c[k].used
            /\ Len(e.operation) = c[1].used
            /\ Len(e.details) = c[2].used
            /\ \A j \in 1..Len(e.metadata) :
                  /\ Len(e.metadata[j][1]) < c[2 + j].before
                  /\ Len(e.metadata[j][1]) + Len(e.metadata[j][2]) = c[2 + j].used

\* every step consumed something and the budget was used up by the
\* metadata: operation, details and two pairs stored, the third pair left out
C30_Witness ==
    \E i \in 1..Len(logged) :
        LET c == Counters(TextInput(logged[i].input).err)
        IN  /\ Len(c) = 5
            /\ c[1].used > 0
            /\ c[2].used > 0
            /\ c[3].used > 0
            /\ c[4].used > 0
            /\ c[5].used = 0
            /\ c[5].remaining < 3
            /\ Len(logged[i].entry.metadata) = 2

(* threads: bounds and accounting *)

\* C22: in every state, also in the middle of a push, 0 <= len <= capacity,
\* and the capacity is max(1, max_entries given to new): the number of
\* slots, max_entries of the logger and of every handle never differ from it
C22_LenWithinCapacity ==
    /\ 0 <= len
    /\ len <= capacity
    /\ capacity = Max(1, given)
    /\ RingBuffer_capacity = capacity
    /\ \A h \in DOMAIN handles : handles[h].max_entries = capacity

\* new(0, _): a push onto the full one-slot storage is between its slot
\* write and its index updates while the other thread has a call pending
C22_Witness ==
    /\ given = 0
    /\ capacity = 1
    /\ len = 1
    /\ \E t \in Threads, u \in Threads :
          /\ pc[t] = "push_tail"
          /\ th[t].evicted # None
          /\ pc[u] \in {"write_buffer", "read_buffer"}

\* C28: whenever no thread holds the write guard, the number of log calls
\* that have returned is len + eviction_count + the number of entries that
\* clear calls removed
C28_EveryLogAccounted ==
    Writers = {} => log_calls = len + eviction_count + discarded

\* the log calls of both threads have returned; one entry was evicted by
\* the second push and the other removed by a clear
C28_Witness ==
    /\ Writers = {}
    /\ log_calls = 2
    /\ len = 0
    /\ eviction_count = 1
    /\ discarded = 1
    /\ \E a \in returned, b \in returned : Logger(a) # Logger(b)

(* threads: timestamps *)

\* C23: along every get_all and get_recent result the timestamps do not
\* increase from the first (newest) entry to the last
C23_ReverseChronological ==
    \A t \in Threads :
        (th[t].op \in {"get_all", "get_recent"} /\ th[t].result # None) =>
            LET r == th[t].result[1]
            IN  \A i \in 1..Len(r), j \in 1..Len(r) :
                    i < j => r[i].timestamp >= r[j].timestamp

(* threads: termination of the calls *)

\* C24: every call that has begun acquires the lock and returns: no thread
\* stays for ever in a call
C24_EveryCallReturns == \A t \in Threads : (pc[t] # "idle") ~> (pc[t] = "idle")

====
